---------------------------- MODULE Spec2Model ----------------------------
(***************************************************************************)
(* A model of task1.py: the World Bank population bar chart script.        *)
(*                                                                         *)
(* The module's functions are modelled as operators computed the way the   *)
(* code computes them, and the script as a state machine: either main()    *)
(* runs statement by statement, or one of the module's functions is called *)
(* directly (as a test or an importing caller would) with arguments drawn  *)
(* from small sets.                                                        *)
(*                                                                         *)
(* A population table is a record [names, cols]: names is the sequence of  *)
(* the "Country Name" column and cols maps each year column label to the   *)
(* sequence of its values.  Row i of the table is position i of each.      *)
(*                                                                         *)
(* A number handed to format_population is a record [int, half] standing   *)
(* for int + half/2, so that inputs with a fractional part (axis ticks are *)
(* floats) exercise the rounding of the format specifications.             *)
(***************************************************************************)
EXTENDS Integers, Sequences, FiniteSets, TLC

VARIABLES pc, stdout, files, shown, requests, call, ret, population_data, plot

vars == <<pc, stdout, files, shown, requests, call, ret, population_data, plot>>

(***************************************************************************)
(* Bounds of the model.                                                    *)
(***************************************************************************)
\* Largest number of rows of an enumerated table.
MaxRows == 3
\* Largest population value of an enumerated table.
MaxVal == 1
\* top_n ranges up to the row count plus MaxExtra.
MaxExtra == 2
\* format_population inputs step through each tier MaxStep times.
MaxStep == 6

(***************************************************************************)
(* Program constants.                                                      *)
(***************************************************************************)
Billion == 1000000000
Million == 1000000
DefaultTopN == 10
DefaultYear == "2020"
StatusOK == 200

Min(a, b) == IF a <= b THEN a ELSE b

(***************************************************************************)
(* get_sample_data: the hard-coded table.                                  *)
(***************************************************************************)
get_sample_data ==
    [ names |-> << "China", "India", "United States", "Indonesia", "Pakistan",
                   "Brazil", "Nigeria", "Bangladesh", "Russia", "Mexico",
                   "Japan", "Ethiopia", "Philippines", "Egypt", "Vietnam" >>,
      cols |->
        [ y \in {"2010", "2015", "2020"} |->
            CASE y = "2010" ->
                   << 1337705000, 1230984504, 309011475, 242524123, 179424641,
                      196796269, 158503197, 147575430, 143479274, 119090017,
                      128542353, 87702670, 93966780, 82761235, 87411012 >>
              [] y = "2015" ->
                   << 1406847870, 1310152403, 321418820, 258383256, 199426964,
                      204471769, 181137448, 156256276, 144096870, 125890949,
                      127985133, 100835458, 102113212, 92442547, 92677076 >>
              [] y = "2020" ->
                   << 1410929362, 1380004385, 329484123, 273523621, 220892331,
                      212559409, 206139587, 164689383, 144104080, 128932753,
                      125836021, 114963583, 109581085, 102334403, 97338583 >> ] ]

NRows(data) == Len(data.names)

(***************************************************************************)
(* format_population.                                                      *)
(***************************************************************************)
Num(n) == [int |-> n, half |-> 0]

\* x >= k for an integer k.
AtLeast(x, k) == x.int >= k

\* The result of a format specification: the digits before the point, the
\* one digit after it (-1 when the format has no decimals) and the suffix.
Formatted(tenths, suffix) ==
    [digits |-> tenths \div 10, frac |-> tenths % 10, suffix |-> suffix]

\* x/unit is a correctly rounded double and ".1f" rounds the exact value of
\* that double half-to-even.  For x = (2q+1)*unit/20, half way between the
\* tenths q and q+1, the outcome depends on which side of (2q+1)/20 the
\* nearest double lies (or, when (2q+1)/20 is itself a double, on which of q
\* and q+1 is even).  These are the q below 60, and 9999, for which IEEE-754
\* binary64 gives q+1.
TieRoundsUp ==
    { 0, 4, 5, 6, 7, 10, 13, 15, 17, 18, 23, 24, 27, 28, 29, 33, 34, 37, 38,
      39, 41, 44, 46, 47, 49, 51, 54, 56, 57, 59, 9999 }

\* f'{x/unit:.1f}' in tenths.
OneDecimal(x, unit) ==
    LET step == unit \div 10
        q == x.int \div step
        twice == 2 * (x.int % step) + x.half
    IN  IF twice > step THEN q + 1
        ELSE IF twice < step THEN q
        ELSE IF q \in TieRoundsUp THEN q + 1 ELSE q

\* f'{x:.0f}': round half to even.
NoDecimal(x) ==
    IF x.half = 0 THEN x.int
    ELSE IF x.int % 2 = 0 THEN x.int ELSE x.int + 1

\* Variant with strict comparisons (x > 1e9, x > 1e6): the tier boundaries
\* fall into the tier below.
format_population_strict(x, pos) ==
    IF x.int > Billion \/ (x.int = Billion /\ x.half = 1)
        THEN Formatted(OneDecimal(x, Billion), "B")
    ELSE IF x.int > Million \/ (x.int = Million /\ x.half = 1)
        THEN Formatted(OneDecimal(x, Million), "M")
    ELSE [digits |-> NoDecimal(x), frac |-> -1, suffix |-> ""]

format_population(x, pos) ==
    IF AtLeast(x, Billion) THEN Formatted(OneDecimal(x, Billion), "B")
    ELSE IF AtLeast(x, Million) THEN Formatted(OneDecimal(x, Million), "M")
    ELSE [digits |-> NoDecimal(x), frac |-> -1, suffix |-> ""]

\* The text of a formatted value.
Text(f) ==
    IF f.frac = -1 THEN ToString(f.digits)
    ELSE ToString(f.digits) \o "." \o ToString(f.frac) \o f.suffix


(***************************************************************************)
(* fetch_world_bank_population_data.                                       *)
(*                                                                         *)
(* What the one requests.get and the pd.read_csv after it can do is an     *)
(* outcome record: a response with a status and a body that parses or not, *)
(* or an exception raised by the request.  ConnectionError and Timeout are *)
(* subclasses of Exception; KeyboardInterrupt is not.                      *)
(***************************************************************************)
NoTable == [names |-> <<>>, cols |-> [y \in {} |-> <<>>]]

ErrorText(outcome) ==
    IF outcome.kind = "response" THEN "ParserError" ELSE outcome.kind

\* Variant in which read_csv never raises: an unparsable body is returned.
TryRaisesNoParserError(outcome) ==
    IF outcome.kind # "response" THEN outcome.kind ELSE ""

\* The exception the try block raises, "" when it raises none.
TryRaises(outcome) ==
    IF outcome.kind # "response" THEN outcome.kind
    ELSE IF outcome.status = StatusOK /\ ~outcome.parses THEN "ParserError"
    ELSE ""

\* Variant: except requests.RequestException, which lets ParserError escape.
CaughtRequestErrorsOnly(exc) == exc \in {"ConnectionError", "Timeout"}

\* except Exception as e
CaughtByExcept(exc) == exc \in {"ConnectionError", "Timeout", "ParserError"}

\* Variant that reports success too, with one message on every path.
fetch_printing_on_success(outcome) ==
    IF outcome.kind = "response" /\ outcome.status = StatusOK /\ outcome.parses
    THEN [ value |-> outcome.body, source |-> "read_csv",
           printed |-> << "Data fetched" >>, raised |-> "" ]
    ELSE IF outcome.kind = "KeyboardInterrupt"
    THEN [ value |-> NoTable, source |-> "", printed |-> <<>>,
           raised |-> outcome.kind ]
    ELSE [ value |-> get_sample_data, source |-> "get_sample_data",
           printed |-> << IF outcome.kind = "response" /\ outcome.status # StatusOK
                          THEN "Failed to fetch data: HTTP "
                                 \o ToString(outcome.status)
                          ELSE "Error fetching data: " \o ErrorText(outcome) >>,
           raised |-> "" ]

fetch_world_bank_population_data(outcome) ==
    LET exc == TryRaises(outcome)
    IN  IF exc = "" THEN
            IF outcome.status = StatusOK THEN
                [ value |-> outcome.body, source |-> "read_csv",
                  printed |-> <<>>, raised |-> "" ]
            ELSE
                [ value |-> get_sample_data, source |-> "get_sample_data",
                  printed |-> << "Failed to fetch data: HTTP "
                                   \o ToString(outcome.status) >>,
                  raised |-> "" ]
        ELSE IF CaughtByExcept(exc) THEN
            [ value |-> get_sample_data, source |-> "get_sample_data",
              printed |-> << "Error fetching data: " \o ErrorText(outcome) >>,
              raised |-> "" ]
        ELSE
            [ value |-> NoTable, source |-> "", printed |-> <<>>,
              raised |-> exc ]

(***************************************************************************)
(* plot_population_bar_chart.                                              *)
(***************************************************************************)
\* data.sort_values(by=year, ascending=False): the orders of the row
\* positions it may return.  The call passes no `kind`, so pandas sorts with
\* its default, quicksort, which is not a stable sort: rows with equal
\* values may come out in any order.
RECURSIVE DescendingOrders(_, _)
DescendingOrders(vals, S) ==
    IF S = {} THEN { <<>> }
    ELSE UNION { { <<i>> \o rest : rest \in DescendingOrders(vals, S \ {i}) } :
                 i \in { j \in S : \A k \in S : vals[k] <= vals[j] } }

Reverse(seq) == [i \in 1 .. Len(seq) |-> seq[Len(seq) + 1 - i]]

\* Variant without ascending=False.
sort_values_ascending(data, year) ==
    { Reverse(o) : o \in DescendingOrders(data.cols[year], 1 .. NRows(data)) }

sort_values(data, year) ==
    DescendingOrders(data.cols[year], 1 .. NRows(data))

\* Variant that stops one row short, as head(top_n - 1) would.
head_one_short(rows, n) == SubSeq(rows, 1, Min(n, Len(rows)) - 1)

\* DataFrame.head(n) for n >= 0.
head(rows, n) == SubSeq(rows, 1, Min(n, Len(rows)))

RECURSIVE MaxOf(_, _)
MaxOf(vals, rows) ==
    IF Len(rows) = 0 THEN 0
    ELSE LET m == MaxOf(vals, Tail(rows))
         IN  IF vals[Head(rows)] >= m THEN vals[Head(rows)] ELSE m

Title(top_n, year) ==
    "Top " \o ToString(top_n) \o " Countries by Population (" \o year \o ")"

\* sns.barplot draws one bar (one patch) per row of sorted_data.
barplot(data, year, sorted_data) ==
    [ i \in 1 .. Len(sorted_data) |->
        [ x |-> data.names[sorted_data[i]],
          height |-> data.cols[year][sorted_data[i]] ] ]

\* Variant whose annotation loop runs over range(top_n) instead of the
\* patches: sorted_data.iloc[i] raises IndexError past the last row.
ChartLoopOverTopN(data, year, top_n, sorted_data) ==
    LET patches == barplot(data, year, sorted_data)
    IN  IF top_n > Len(sorted_data) THEN
            [ status |-> "IndexError", rows |-> sorted_data, title |-> "",
              bars |-> <<>>, labels |-> <<>>, lift |-> 0 ]
        ELSE
            [ status |-> "ok",
              rows |-> sorted_data,
              title |-> Title(top_n, year),
              bars |-> patches,
              labels |-> [ i \in 1 .. Len(patches) |->
                  Text(format_population(
                         Num(data.cols[year][sorted_data[i]]), "None")) ],
              lift |-> MaxOf(data.cols[year], sorted_data) ]

\* The chart drawn from the selected rows.
Chart(data, year, top_n, sorted_data) ==
    LET patches == barplot(data, year, sorted_data)
    IN  IF Len(patches) > Len(sorted_data) THEN
            \* sorted_data.iloc[i] past the last row
            [ status |-> "IndexError", rows |-> sorted_data, title |-> "",
              bars |-> <<>>, labels |-> <<>>, lift |-> 0 ]
        ELSE
            [ status |-> "ok",
              rows |-> sorted_data,
              title |-> Title(top_n, year),
              bars |-> patches,
              labels |-> [ i \in 1 .. Len(patches) |->
                  Text(format_population(
                         Num(data.cols[year][sorted_data[i]]), "None")) ],
              \* each label is lifted by max * 0.02, kept as the max
              lift |-> MaxOf(data.cols[year], sorted_data) ]

NoChart ==
    [ status |-> "none", rows |-> <<>>, title |-> "", bars |-> <<>>,
      labels |-> <<>>, lift |-> 0 ]

\* Variant that falls back to the "2020" column when year is no column.
plot_with_fallback_column(data, year, top_n) ==
    LET by == IF year \in DOMAIN data.cols THEN year ELSE "2020"
    IN  { Chart(data, by, top_n, head(sorted, top_n)) :
          sorted \in sort_values(data, by) }

\* The outcomes of plot_population_bar_chart(data, year, top_n).
plot_population_bar_chart(data, year, top_n) ==
    IF year \notin DOMAIN data.cols THEN
        \* sort_values raises KeyError before anything is drawn
        { [ status |-> "KeyError", rows |-> <<>>, title |-> "",
            bars |-> <<>>, labels |-> <<>>, lift |-> 0 ] }
    ELSE { Chart(data, year, top_n, head(sorted, top_n)) :
           sorted \in sort_values(data, year) }

\* Variant with the two fields of the file name exchanged.
OutputFileSwapped(top_n, year) ==
    "population_top" \o year \o "_" \o ToString(top_n) \o ".png"

OutputFile(top_n, year) ==
    "population_top" \o ToString(top_n) \o "_" \o year \o ".png"

(***************************************************************************)
(* The inputs of the direct calls.                                         *)
(***************************************************************************)
CountryName(i) == "Country" \o ToString(i)

YearColumns == {"2015", "2020"}

TablesOfLen(n) ==
    { [ names |-> [i \in 1 .. n |-> CountryName(i)], cols |-> c ] :
      c \in [YearColumns -> [1 .. n -> 0 .. MaxVal]] }

Tables == UNION { TablesOfLen(n) : n \in 1 .. MaxRows }

Years == YearColumns \cup {"1999"}

TopNs(data) == 1 .. (NRows(data) + MaxExtra)

Statuses == {200, 404, 500}

NetworkOutcomes ==
    { [kind |-> "response", status |-> s, parses |-> p, body |-> b] :
      s \in Statuses, p \in BOOLEAN, b \in TablesOfLen(1) \cup {get_sample_data} }
    \cup
    { [kind |-> k, status |-> 0, parses |-> FALSE, body |-> NoTable] :
      k \in {"ConnectionError", "Timeout", "KeyboardInterrupt"} }

FormatInts ==
    (0 .. MaxStep)
    \cup { Million - 1 }
    \cup { Million + j * 50000 + d : j \in 0 .. MaxStep, d \in {0, 1} }
    \cup { 999949999, 999950000, Billion - 1 }
    \cup { Billion + j * 50000000 + d : j \in 0 .. MaxStep, d \in {0, 1} }
    \cup { get_sample_data.cols["2020"][i] : i \in 1 .. NRows(get_sample_data) }

FormatInputs == { [int |-> n, half |-> h] : n \in FormatInts, h \in {0, 1} }

PosValues == {"None", "0", "1"}

(***************************************************************************)
(* The state machine.                                                      *)
(***************************************************************************)
NoCall == [op |-> "none"]

Init ==
    /\ pc = "idle"
    /\ stdout = <<>>
    /\ files = {}
    /\ shown = FALSE
    /\ requests = 0
    /\ call = NoCall
    /\ ret = NoCall
    /\ population_data = NoTable
    /\ plot = NoChart

\* A direct call of fetch_world_bank_population_data().
CallFetch(outcome) ==
    /\ pc = "idle"
    /\ LET r == fetch_world_bank_population_data(outcome)
       IN  /\ ret' = r
           /\ stdout' = stdout \o r.printed
    /\ requests' = requests + 1
    /\ call' = [op |-> "fetch", outcome |-> outcome]
    /\ pc' = "returned"
    /\ UNCHANGED <<files, shown, population_data, plot>>

\* A direct call of get_sample_data().
CallSample ==
    /\ pc = "idle"
    /\ ret' = [value |-> get_sample_data]
    /\ call' = [op |-> "sample"]
    /\ pc' = "returned"
    /\ UNCHANGED <<stdout, files, shown, requests, population_data, plot>>

\* A direct call of format_population(x, pos).
CallFormat(x, pos) ==
    /\ pc = "idle"
    /\ ret' = format_population(x, pos)
    /\ call' = [op |-> "format", x |-> x, pos |-> pos]
    /\ pc' = "returned"
    /\ UNCHANGED <<stdout, files, shown, requests, population_data, plot>>

\* A direct call of plot_population_bar_chart(data, year, top_n).
CallPlot(data, year, top_n) ==
    /\ pc = "idle"
    /\ \E chart \in plot_population_bar_chart(data, year, top_n) :
           ret' = chart
    /\ call' = [op |-> "plot", data |-> data, year |-> year, top_n |-> top_n]
    /\ pc' = "returned"
    /\ UNCHANGED <<stdout, files, shown, requests, population_data, plot>>

\* main(), lines 127-128.
MainFetch ==
    /\ pc = "idle"
    /\ stdout' = Append(stdout, "Fetching population data...")
    /\ population_data' = get_sample_data
    /\ call' = [op |-> "main"]
    /\ pc' = "main_create"
    /\ UNCHANGED <<files, shown, requests, ret, plot>>

\* main(), lines 131-133.
MainCreate ==
    /\ pc = "main_create"
    /\ stdout' = Append(stdout, "Creating bar chart...")
    /\ pc' = "main_plot"
    /\ UNCHANGED <<files, shown, requests, call, ret, population_data, plot>>

\* main(), line 136: an exception of the call is not handled.
MainPlot ==
    /\ pc = "main_plot"
    /\ \E chart \in plot_population_bar_chart(population_data, DefaultYear,
                                              DefaultTopN) :
        /\ plot' = chart
        /\ pc' = IF chart.status = "ok" THEN "main_save" ELSE "crashed"
    /\ UNCHANGED <<stdout, files, shown, requests, call, ret, population_data>>

\* main(), lines 137-138.
MainSave ==
    /\ pc = "main_save"
    /\ files' = files \cup {OutputFile(DefaultTopN, DefaultYear)}
    /\ pc' = "main_report"
    /\ UNCHANGED <<stdout, shown, requests, call, ret, population_data, plot>>

\* main(), line 139.
MainReport ==
    /\ pc = "main_report"
    /\ stdout' = Append(stdout, "Chart saved as '"
                                  \o OutputFile(DefaultTopN, DefaultYear) \o "'")
    /\ pc' = "main_show"
    /\ UNCHANGED <<files, shown, requests, call, ret, population_data, plot>>

\* main(), line 142.
MainShow ==
    /\ pc = "main_show"
    /\ shown' = TRUE
    /\ pc' = "done"
    /\ UNCHANGED <<stdout, files, requests, call, ret, population_data, plot>>

\* The direct calls are made from the idle state only; the guard is repeated
\* here so that the arguments are enumerated in that state alone.
Next ==
    \/ pc = "idle" /\ \E outcome \in NetworkOutcomes : CallFetch(outcome)
    \/ CallSample
    \/ pc = "idle" /\ \E x \in FormatInputs, pos \in PosValues : CallFormat(x, pos)
    \/ pc = "idle" /\ \E data \in Tables \cup {get_sample_data}, year \in Years :
                         \E top_n \in TopNs(data) : CallPlot(data, year, top_n)
    \/ MainFetch
    \/ MainCreate
    \/ MainPlot
    \/ MainSave
    \/ MainReport
    \/ MainShow

Spec == Init /\ [][Next]_vars

(***************************************************************************)
(* Properties.                                                             *)
(***************************************************************************)
Range(seq) == { seq[i] : i \in 1 .. Len(seq) }

\* The failing outcomes of the network attempt: a transport error, a status
\* other than 200, or a body that does not parse.
Failing(outcome) ==
    \/ outcome.kind \in {"ConnectionError", "Timeout"}
    \/ /\ outcome.kind = "response"
       /\ outcome.status # 200 \/ ~outcome.parses

\* C1: on every failing outcome of the network attempt the fetch returns the
\* hard-coded table of 15 countries with the year columns 2010, 2015 and
\* 2020, has printed a diagnostic message, and lets no exception escape.
C1_FallbackOnFailure ==
    (call.op = "fetch" /\ Failing(call.outcome)) =>
        /\ ret.raised = ""
        /\ ret.source = "get_sample_data"
        /\ Len(ret.value.names) = 15
        /\ Cardinality(Range(ret.value.names)) = 15
        /\ DOMAIN ret.value.cols = {"2010", "2015", "2020"}
        /\ \A y \in DOMAIN ret.value.cols : Len(ret.value.cols[y]) = 15
        /\ ret.value.names[1] = "China" /\ ret.value.cols["2020"][1] = 1410929362
        /\ Len(stdout) >= 1

C1_Witness ==
    /\ call.op = "fetch"
    /\ call.outcome.kind = "Timeout"
    /\ ret.source = "get_sample_data"
    /\ stdout = << "Error fetching data: Timeout" >>

\* C2: the fetch returns the table parsed from the body, and not the
\* fallback, exactly when the one network attempt gives status 200 and the
\* body parses.
C2_ParsedIffOkAndParses ==
    call.op = "fetch" =>
        /\ requests = 1
        /\ (ret.source = "read_csv" /\ ret.value = call.outcome.body)
             <=> ( /\ call.outcome.kind = "response"
                   /\ call.outcome.status = 200
                   /\ call.outcome.parses )
        /\ ( /\ call.outcome.kind = "response"
             /\ call.outcome.status = 200
             /\ ret.source # "read_csv" ) => ~call.outcome.parses

C2_Witness ==
    /\ call.op = "fetch"
    /\ call.outcome.kind = "response"
    /\ call.outcome.status = 200
    /\ call.outcome.parses
    /\ call.outcome.body # get_sample_data
    /\ ret.value = call.outcome.body

\* The values of the requested column of a plot call.
CallVals == call.data.cols[call.year]

PlotDrawn == call.op = "plot" /\ ret.status = "ok"

\* C3: for a year that names a column, the selected rows are in an order
\* whose values are non-increasing, and every unselected row has a value no
\* greater than the last selected row's.
C3_SelectionDescending ==
    call.op = "plot" /\ call.year \in DOMAIN call.data.cols =>
        /\ ret.status = "ok"
        /\ Range(ret.rows) \subseteq 1 .. NRows(call.data)
        /\ Cardinality(Range(ret.rows)) = Len(ret.rows)
        /\ \A i \in 1 .. Len(ret.rows) - 1 :
               CallVals[ret.rows[i]] >= CallVals[ret.rows[i + 1]]
        /\ \A r \in (1 .. NRows(call.data)) \ Range(ret.rows) :
               Len(ret.rows) > 0 /\ CallVals[r] <= CallVals[ret.rows[Len(ret.rows)]]

\* Some row is left out and the selected values are not all equal.
C3_Witness ==
    /\ PlotDrawn
    /\ Len(ret.rows) = 2
    /\ NRows(call.data) = 3
    /\ CallVals[ret.rows[1]] > CallVals[ret.rows[2]]
    /\ ret.rows[1] > ret.rows[2]

SampleTop5 ==
    /\ call.op = "plot"
    /\ call.data = get_sample_data
    /\ call.year = "2020"
    /\ call.top_n = 5

SelectedNames == [i \in 1 .. Len(ret.rows) |-> call.data.names[ret.rows[i]]]

\* C4 as stated: the static table for "2020" with top_n = 5 selects China,
\* India, United States, Indonesia, Nigeria.
C4_Original ==
    SampleTop5 =>
        SelectedNames = << "China", "India", "United States", "Indonesia", "Nigeria" >>

\* C4 amended: the static table for "2020" with top_n = 5 selects, in this
\* order, China, India, United States, Indonesia, Pakistan.
C4_SampleTop5 ==
    SampleTop5 =>
        /\ ret.status = "ok"
        /\ SelectedNames = << "China", "India", "United States", "Indonesia", "Pakistan" >>

C4_Witness ==
    /\ SampleTop5
    /\ Len(ret.bars) = 5
    /\ ret.bars[5].x = "Pakistan"

\* C5: with top_n larger than the row count every row is selected (the
\* selection has min(top_n, row count) rows) and the call raises no error.
C5_TopNClipped ==
    call.op = "plot" /\ call.year \in DOMAIN call.data.cols =>
        /\ Len(ret.rows) = Min(call.top_n, NRows(call.data))
        /\ call.top_n > NRows(call.data) =>
              /\ ret.status = "ok"
              /\ Range(ret.rows) = 1 .. NRows(call.data)
              /\ Len(ret.bars) = NRows(call.data)
              /\ Len(ret.labels) = NRows(call.data)

C5_Witness ==
    /\ PlotDrawn
    /\ call.top_n = NRows(call.data) + 2
    /\ Len(ret.rows) = NRows(call.data)
    /\ NRows(call.data) >= 2

\* C6: rows with equal values in the requested column stay in their table
\* order, so the selection is determined by the table, the year and top_n.
C6_StableTies ==
    PlotDrawn =>
        \A i, j \in 1 .. Len(ret.rows) :
            (i < j /\ CallVals[ret.rows[i]] = CallVals[ret.rows[j]])
                => ret.rows[i] < ret.rows[j]

\* C7: a year that is no column makes the call fail at once with KeyError,
\* nothing selected or drawn from another column and no file written; and
\* the image file exists only once main's chart is fully constructed.
C7_FailFastNoFile ==
    /\ (call.op = "plot" /\ call.year \notin DOMAIN call.data.cols) =>
          /\ ret.status = "KeyError"
          /\ ret.rows = <<>>
          /\ ret.bars = <<>>
          /\ files = {}
    /\ files # {} =>
          /\ plot.status = "ok"
          /\ pc \in {"main_report", "main_show", "done"}
    /\ pc = "crashed" => files = {}

C7_Witness ==
    /\ call.op = "plot"
    /\ call.year = "1999"
    /\ call.top_n = 3
    /\ ret.status = "KeyError"
    /\ files = {}

\* Twice the distance of the tenths t of a result from x/unit, in units of
\* unit/10, is at most one: t is x/unit to one decimal.
ToOneDecimal(x, f, unit) ==
    LET step == unit \div 10
        d == 2 * (x.int - (f.digits * 10 + f.frac) * step) + x.half
    IN  /\ f.frac \in 0 .. 9
        /\ f.digits >= 0
        /\ d <= step
        /\ 0 - d <= step

\* C8: format_population depends on x alone; x >= 10^9 gives x/10^9 to one
\* decimal with suffix "B", 10^6 <= x < 10^9 gives x/10^6 to one decimal with
\* suffix "M", and x < 10^6 gives the rounded integer with no suffix.
C8_ThreeTiers ==
    call.op = "format" =>
        /\ \A p \in PosValues : format_population(call.x, p) = ret
        /\ call.x.int >= 1000000000 =>
              ret.suffix = "B" /\ ToOneDecimal(call.x, ret, 1000000000)
        /\ (call.x.int >= 1000000 /\ call.x.int < 1000000000) =>
              ret.suffix = "M" /\ ToOneDecimal(call.x, ret, 1000000)
        /\ call.x.int < 1000000 =>
              /\ ret.suffix = ""
              /\ ret.frac = -1
              /\ 2 * ret.digits - (2 * call.x.int + call.x.half) \in -1 .. 1

C8_Witness ==
    /\ call.op = "format"
    /\ call.x = [int |-> 1000000000, half |-> 0]
    /\ call.pos = "0"
    /\ Text(ret) = "1.0B"

\* C9 as stated: a run of main makes the network attempt before it renders.
C9_Original ==
    pc = "done" => requests >= 1

\* C9 amended: a run of main takes its table from get_sample_data and makes
\* no network attempt; it renders year "2020" with top-N 10, writes
\* population_top10_2020.png, and displays the chart only after that.
C9_MainRun ==
    call.op = "main" =>
        /\ requests = 0
        /\ population_data = get_sample_data
        /\ plot.status \in {"none", "ok"}
        /\ plot.status = "ok" =>
              /\ plot.title = "Top 10 Countries by Population (2020)"
              /\ Len(plot.bars) = 10
              /\ plot.bars[1] = [x |-> "China", height |-> 1410929362]
        /\ files \subseteq {"population_top10_2020.png"}
        /\ files # {} => plot.status = "ok"
        /\ shown => files = {"population_top10_2020.png"}
        /\ pc = "done" => shown

C9_Witness ==
    /\ pc = "done"
    /\ shown
    /\ requests = 0
    /\ files = {"population_top10_2020.png"}
    /\ Len(stdout) = 3

\* C10 as stated: every fetch that returns has printed at least one message.
C10_Original ==
    (call.op = "fetch" /\ ret.raised = "") => Len(stdout) >= 1

\* C10 amended: a fetch prints exactly one message when it falls back (on a
\* status other than 200, or on an exception it catches) and prints nothing
\* when it returns the parsed table.
C10_MessageOnlyOnFallback ==
    (call.op = "fetch" /\ ret.raised = "") =>
        /\ ret.source = "get_sample_data" =>
              /\ Len(stdout) = 1
              /\ \/ /\ call.outcome.kind = "response"
                    /\ call.outcome.status # 200
                    /\ stdout[1] = "Failed to fetch data: HTTP "
                                     \o ToString(call.outcome.status)
                 \/ /\ Failing(call.outcome)
                    /\ stdout[1] = "Error fetching data: " \o ErrorText(call.outcome)
        /\ ret.source = "read_csv" => stdout = <<>>

C10_Witness ==
    /\ call.op = "fetch"
    /\ ret.source = "read_csv"
    /\ ret.raised = ""
    /\ stdout = <<>>

=============================================================================
